---- MODULE Spec2Model ----
(***************************************************************************)
(* A model of the code-rag ingestion core: the chunk identity scheme       *)
(* (models/code-chunk.ts), the chunk builder (parser/chunker.ts), the bulk *)
(* indexer and the OpenSearch client wrapper (indexer/), and the ingestion *)
(* pipeline (pipeline/ingestion-pipeline.ts).                              *)
(*                                                                         *)
(* JavaScript strings are sequences of one-character strings, so that      *)
(* split, join, length and template-literal concatenation are computed     *)
(* character by character.                                                 *)
(***************************************************************************)
EXTENDS Integers, Sequences, FiniteSets, TLC

VARIABLES
    \* --- createChunkId called twice (SpecId)
    idArgs,        \* the arguments of the next call
    idCalls,       \* the last two calls made: <<[args, id], ...>>
    \* --- Chunker.symbolToChunks called on one symbol (SpecSplit)
    symbol,        \* the ParsedSymbol handed to the chunker
    config,        \* the ChunkingConfig the Chunker was constructed with
    chunks,        \* the chunks returned
    chunked,       \* whether symbolToChunks has returned
    \* --- Chunker.chunkFile called on one file (SpecFile)
    fileIn,        \* the file: FileInfo, content on disk, what its parser answers
    fileConfig,    \* the ChunkingConfig the Chunker was constructed with
    fileOut,       \* what chunkFile did: [called, raised, chunks]
    \* --- BulkIndexer.indexChunks called on a number of chunks (SpecIndex)
    ix,            \* locals of processRepository and indexChunks, calls made, progress delivered
    \* --- IngestionPipeline.run against the repositories and the store (Spec)
    world,         \* the repositories on disk: the discovered list, each one's files
    worldChanged,  \* whether a repository changed since the last run started
    store,         \* the OpenSearch index: document id -> document
    pc,            \* where run() stands
    dryRun,        \* options.dryRun of the current run
    repos,         \* run(): repos
    repoIdx,       \* run(): position of the repository loop (1-based)
    result,        \* run(): result
    proc,          \* locals of processRepository / indexChunks for the current repository
    calls,         \* collaborator calls issued by the current run, in order
    inflight,      \* collaborator calls issued and not yet returned
    awaiting,      \* whether run() is suspended at an await of a collaborator call
    preflight,     \* initialize(): isConnected, indexExists
    events,        \* the IngestionStatus values handed to options.onProgress
    upserted,      \* ids the store acknowledged during the current run
    attempted,     \* names of the repositories processRepository was called for
    raisedBy,      \* the repositories whose processing raised, with the message
    prev           \* how the run before the current one ended

varsId == <<idArgs, idCalls>>
varsSplit == <<symbol, config, chunks, chunked>>
varsFile == <<fileIn, fileConfig, fileOut>>
varsIndex == <<ix>>
varsRun == <<world, worldChanged, store, pc, dryRun, repos, repoIdx, result, proc,
             calls, inflight, awaiting, preflight, events, upserted, attempted,
             raisedBy, prev>>
vars == <<varsId, varsSplit, varsFile, varsIndex, varsRun>>

\* the values the variables of a part keep while another part is checked
IdIdle == idArgs = <<>> /\ idCalls = <<>>
SplitIdle == symbol = <<>> /\ config = <<>> /\ chunks = <<>> /\ chunked = FALSE
FileIdle == fileIn = <<>> /\ fileConfig = <<>> /\ fileOut = <<>>
IndexIdle == ix = <<>>

\* initialize(): no check made yet
NoPreflight == [isConnected |-> FALSE, indexExists |-> FALSE]

\* the index with no document
EmptyStore == [i \in {} |-> 0]

\* run(): the initial result
ZeroResult ==
    [repositories |-> 0, files |-> 0, chunks |-> 0, indexed |-> 0, failed |-> 0,
     errors |-> <<>>]

\* the locals of processRepository and indexChunks before they are set
ProcIdle ==
    [files |-> <<>>, allChunks |-> <<>>, filesProcessed |-> 0,
     embeddings |-> <<>>, i |-> 0,
     totalSuccessful |-> 0, totalFailed |-> 0, allErrors |-> <<>>]

\* no run has ended yet
NoPrev == [returned |-> FALSE, dryRun |-> FALSE, clean |-> FALSE,
           sameWorld |-> FALSE, repos |-> <<>>, store |-> EmptyStore]

RunIdle ==
    /\ world = <<>> /\ worldChanged = FALSE /\ store = EmptyStore /\ pc = "idle"
    /\ dryRun = FALSE /\ repos = <<>> /\ repoIdx = 1 /\ result = ZeroResult
    /\ proc = ProcIdle /\ calls = <<>> /\ upserted = {} /\ attempted = <<>>
    /\ raisedBy = <<>> /\ prev = NoPrev
    /\ inflight = <<>> /\ awaiting = FALSE /\ preflight = NoPreflight
    /\ events = <<>>

-----------------------------------------------------------------------------
(* Bounds of the model *)

\* longest symbol text, in characters
MaxTextLen == 7
\* longest repo / path / symbol name / commit handed to createChunkId
MaxIdStrLen == 1
\* the largest number of chunks of a repository handed to indexChunks
MaxChunks == 120
\* the largest number of files of that repository
MaxIndexFiles == 2

-----------------------------------------------------------------------------
(* Strings *)

SeqsUpTo(S, n) == UNION {[1..k -> S] : k \in 0..n}

\* an optional string (string | undefined)
Undefined == [defined |-> FALSE, str |-> <<>>]
Str(s) == [defined |-> TRUE, str |-> s]
\* JavaScript truthiness of an optional string: undefined and "" are falsy
Truthy(o) == o.defined /\ o.str # <<>>
\* o ?? ""
OrEmpty(o) == IF o.defined THEN o.str ELSE <<>>

DigitChars == <<"0", "1", "2", "3", "4", "5", "6", "7", "8", "9">>

\* `${n}` for a non-negative integer n
RECURSIVE ToDecimal(_)
ToDecimal(n) ==
    IF n < 10 THEN <<DigitChars[n + 1]>>
    ELSE ToDecimal(n \div 10) \o <<DigitChars[(n % 10) + 1]>>

\* s.split(sep) for a one-character separator
RECURSIVE SplitAcc(_, _, _, _)
SplitAcc(s, sep, cur, k) ==
    IF k > Len(s) THEN <<cur>>
    ELSE IF s[k] = sep THEN <<cur>> \o SplitAcc(s, sep, <<>>, k + 1)
    ELSE SplitAcc(s, sep, Append(cur, s[k]), k + 1)

Split(s, sep) == SplitAcc(s, sep, <<>>, 1)

\* ls.join(sep)
RECURSIVE Join(_, _)
Join(ls, sep) ==
    IF Len(ls) = 0 THEN <<>>
    ELSE IF Len(ls) = 1 THEN ls[1]
    ELSE ls[1] \o <<sep>> \o Join(Tail(ls), sep)

\* ls.slice(startIndex) (0-based start index)
SliceFrom(ls, startIndex) == SubSeq(ls, startIndex + 1, Len(ls))

\* Math.ceil(a / b) for a >= 0, b > 0
CeilDiv(a, b) == (a + b - 1) \div b

Max(a, b) == IF a >= b THEN a ELSE b
Min(a, b) == IF a <= b THEN a ELSE b

-----------------------------------------------------------------------------
(* models/code-chunk.ts *)

\* the id input as the CodeChunk interface documents it ("hash of
\* repo+path+symbol+start_line"): the commit is left out
ChunkIdInput_NoCommit(repo, path, symbolName, startLine, commit) ==
    repo \o <<":">> \o path \o <<":">> \o OrEmpty(symbolName) \o <<":">>
         \o ToDecimal(startLine)

\* the string that createChunkId hashes
ChunkIdInput(repo, path, symbolName, startLine, commit) ==
    repo \o <<":">> \o path \o <<":">> \o OrEmpty(symbolName) \o <<":">>
         \o ToDecimal(startLine) \o <<":">> \o commit

\* Bun.hash(input).toString(16).  Bun.hash is the runtime's 64-bit wyhash,
\* not code of the repository: the digest is written "#" followed by the
\* hashed input, so two ids are equal exactly when the hashed strings are
\* equal (a collision of the hash is not modelled).
BunHash(input) == <<"#">> \o input

createChunkId(repo, path, symbolName, startLine, commit) ==
    BunHash(ChunkIdInput(repo, path, symbolName, startLine, commit))

\* { id, ...params }.  Of the optional pass-through fields (microservice,
\* signature, package, imports, calls, aggregate, tags) none is read by the
\* chunker, the indexer or the pipeline; they are left out.
createCodeChunk(params) ==
    [id |-> createChunkId(params.repo, params.path, params.symbol_name,
                          params.start_line, params.commit)] @@ params

-----------------------------------------------------------------------------
(* parser/chunker.ts *)

ContextHeaderPrefix == <<"/", "/", " ", "I", "n", " ", "c", "l", "a", "s", "s", ":", " ">>

\* `${symbol.name} (part ${partNumber})`
PartName(name, partNumber) ==
    name \o <<" ", "(", "p", "a", "r", "t", " ">> \o ToDecimal(partNumber) \o <<")">>

\* contextHeader of splitSymbol
ContextHeader(sym) ==
    IF Truthy(sym.parent) /\ sym.type = "method"
    THEN ContextHeaderPrefix \o sym.parent.str \o <<"\n">>
    ELSE <<>>

createChunkFromSymbol(sym, fileInfo, repo) ==
    LET text == (IF Truthy(sym.docComment) THEN sym.docComment.str \o <<"\n">> ELSE <<>>)
                \o sym.text
    IN createCodeChunk([
           repo |-> repo.name, branch |-> repo.branch, commit |-> repo.commit,
           path |-> fileInfo.relativePath, language |-> fileInfo.language,
           symbol_type |-> sym.type, symbol_name |-> sym.name,
           start_line |-> sym.startLine, end_line |-> sym.endLine,
           text |-> text])

\* ceil(overlapChars / 80)
OverlapLines(overlap) == CeilDiv(overlap * 4, 80)

\* a part closed with an end line one too small
ClosedPart_EndsEarly(st, sym, fileInfo, repo) ==
    createCodeChunk([
        repo |-> repo.name, branch |-> repo.branch, commit |-> repo.commit,
        path |-> fileInfo.relativePath, language |-> fileInfo.language,
        symbol_type |-> sym.type,
        symbol_name |-> IF Truthy(sym.name)
                        THEN Str(PartName(sym.name.str, st.partNumber))
                        ELSE Undefined,
        start_line |-> st.currentChunkStartLine,
        end_line |-> st.currentChunkStartLine + Len(st.currentChunk) - 2,
        text |-> ContextHeader(sym) \o Join(st.currentChunk, "\n")])

\* the chunk pushed when the buffer is closed inside the loop
ClosedPart(st, sym, fileInfo, repo) ==
    createCodeChunk([
        repo |-> repo.name, branch |-> repo.branch, commit |-> repo.commit,
        path |-> fileInfo.relativePath, language |-> fileInfo.language,
        symbol_type |-> sym.type,
        symbol_name |-> IF Truthy(sym.name)
                        THEN Str(PartName(sym.name.str, st.partNumber))
                        ELSE Undefined,
        start_line |-> st.currentChunkStartLine,
        end_line |-> st.currentChunkStartLine + Len(st.currentChunk) - 1,
        text |-> ContextHeader(sym) \o Join(st.currentChunk, "\n")])

\* a line loop that keeps the start line of the first part for every part
SplitLine_NoAdvance(st, line, sym, fileInfo, repo, cfg) ==
    LET maxCharsPerChunk == cfg.maxTokens * 4
        lineChars == Len(line) + 1
        close == st.currentChunkChars + lineChars > maxCharsPerChunk
                 /\ Len(st.currentChunk) > 0
        overlapLines == OverlapLines(cfg.overlap)
        startIndex == Max(0, Len(st.currentChunk) - overlapLines)
        seed == SliceFrom(st.currentChunk, startIndex)
        st1 == IF close
               THEN [chunks |-> Append(st.chunks, ClosedPart(st, sym, fileInfo, repo)),
                     partNumber |-> st.partNumber + 1,
                     currentChunk |-> seed,
                     currentChunkStartLine |-> st.currentChunkStartLine,
                     currentChunkChars |-> Len(Join(seed, "\n"))]
               ELSE st
    IN [st1 EXCEPT !.currentChunk = Append(@, line),
                   !.currentChunkChars = @ + lineChars]

\* one iteration of the line loop of splitSymbol
SplitLine(st, line, sym, fileInfo, repo, cfg) ==
    LET maxCharsPerChunk == cfg.maxTokens * 4
        lineChars == Len(line) + 1
        close == st.currentChunkChars + lineChars > maxCharsPerChunk
                 /\ Len(st.currentChunk) > 0
        overlapLines == OverlapLines(cfg.overlap)
        startIndex == Max(0, Len(st.currentChunk) - overlapLines)
        seed == SliceFrom(st.currentChunk, startIndex)
        st1 == IF close
               THEN [chunks |-> Append(st.chunks, ClosedPart(st, sym, fileInfo, repo)),
                     partNumber |-> st.partNumber + 1,
                     currentChunk |-> seed,
                     currentChunkStartLine |-> st.currentChunkStartLine + startIndex,
                     currentChunkChars |-> Len(Join(seed, "\n"))]
               ELSE st
    IN [st1 EXCEPT !.currentChunk = Append(@, line),
                   !.currentChunkChars = @ + lineChars]

RECURSIVE SplitLoop(_, _, _, _, _, _, _)
SplitLoop(st, lines, i, sym, fileInfo, repo, cfg) ==
    IF i > Len(lines) THEN st
    ELSE SplitLoop(SplitLine(st, lines[i], sym, fileInfo, repo, cfg),
                   lines, i + 1, sym, fileInfo, repo, cfg)

\* the last chunk of splitSymbol
FinalPart(st, sym, fileInfo, repo) ==
    createCodeChunk([
        repo |-> repo.name, branch |-> repo.branch, commit |-> repo.commit,
        path |-> fileInfo.relativePath, language |-> fileInfo.language,
        symbol_type |-> sym.type,
        symbol_name |-> IF Truthy(sym.name)
                        THEN (IF st.partNumber > 1
                              THEN Str(PartName(sym.name.str, st.partNumber))
                              ELSE sym.name)
                        ELSE Undefined,
        start_line |-> st.currentChunkStartLine,
        end_line |-> sym.endLine,
        text |-> ContextHeader(sym) \o Join(st.currentChunk, "\n")])

splitSymbol(sym, fileInfo, repo, cfg) ==
    LET st0 == [chunks |-> <<>>, partNumber |-> 1, currentChunk |-> <<>>,
                currentChunkStartLine |-> sym.startLine, currentChunkChars |-> 0]
        st == SplitLoop(st0, Split(sym.text, "\n"), 1, sym, fileInfo, repo, cfg)
    IN IF Len(st.currentChunk) > 0
       THEN Append(st.chunks, FinalPart(st, sym, fileInfo, repo))
       ELSE st.chunks

symbolToChunks(sym, fileInfo, repo, cfg) ==
    LET estimatedTokens == CeilDiv(Len(sym.text), 4)
    IN IF estimatedTokens <= cfg.maxTokens
       THEN <<createChunkFromSymbol(sym, fileInfo, repo)>>
       ELSE splitSymbol(sym, fileInfo, repo, cfg)

-----------------------------------------------------------------------------
(* SpecId: createChunkId called on arguments of which one changes at a time *)

IdStrings == SeqsUpTo({"a", ":"}, MaxIdStrLen)
IdNames == {Undefined} \cup {Str(s) : s \in IdStrings}
IdLines == {1, 2, 12}
IdArgTuples ==
    [repo : IdStrings, path : IdStrings, symbolName : IdNames,
     startLine : IdLines, commit : IdStrings]

IdCall(a) ==
    [args |-> a,
     id |-> createChunkId(a.repo, a.path, a.symbolName, a.startLine, a.commit)]

InitId ==
    /\ idArgs \in IdArgTuples
    /\ idCalls = <<>>
    /\ SplitIdle
    /\ FileIdle
    /\ IndexIdle
    /\ RunIdle

\* createChunkId(idArgs) is called; the last two calls are kept
CallCreateChunkId ==
    /\ idCalls' = IF Len(idCalls) = 0 THEN <<IdCall(idArgs)>>
                  ELSE <<idCalls[Len(idCalls)], IdCall(idArgs)>>
    /\ UNCHANGED <<idArgs, varsSplit, varsFile, varsIndex, varsRun>>

\* the caller changes exactly one argument before the next call
ChangeRepo ==
    /\ Len(idCalls) > 0 /\ idCalls[Len(idCalls)].args = idArgs
    /\ \E v \in IdStrings \ {idArgs.repo} : idArgs' = [idArgs EXCEPT !.repo = v]
    /\ UNCHANGED <<idCalls, varsSplit, varsFile, varsIndex, varsRun>>

ChangePath ==
    /\ Len(idCalls) > 0 /\ idCalls[Len(idCalls)].args = idArgs
    /\ \E v \in IdStrings \ {idArgs.path} : idArgs' = [idArgs EXCEPT !.path = v]
    /\ UNCHANGED <<idCalls, varsSplit, varsFile, varsIndex, varsRun>>

ChangeSymbolName ==
    /\ Len(idCalls) > 0 /\ idCalls[Len(idCalls)].args = idArgs
    /\ \E v \in IdNames \ {idArgs.symbolName} :
           idArgs' = [idArgs EXCEPT !.symbolName = v]
    /\ UNCHANGED <<idCalls, varsSplit, varsFile, varsIndex, varsRun>>

ChangeStartLine ==
    /\ Len(idCalls) > 0 /\ idCalls[Len(idCalls)].args = idArgs
    /\ \E v \in IdLines \ {idArgs.startLine} :
           idArgs' = [idArgs EXCEPT !.startLine = v]
    /\ UNCHANGED <<idCalls, varsSplit, varsFile, varsIndex, varsRun>>

ChangeCommit ==
    /\ Len(idCalls) > 0 /\ idCalls[Len(idCalls)].args = idArgs
    /\ \E v \in IdStrings \ {idArgs.commit} : idArgs' = [idArgs EXCEPT !.commit = v]
    /\ UNCHANGED <<idCalls, varsSplit, varsFile, varsIndex, varsRun>>

NextId ==
    \/ CallCreateChunkId
    \/ ChangeRepo
    \/ ChangePath
    \/ ChangeSymbolName
    \/ ChangeStartLine
    \/ ChangeCommit

-----------------------------------------------------------------------------
(* SpecSplit: Chunker.symbolToChunks called on one symbol *)

Texts == SeqsUpTo({"a", "\n"}, MaxTextLen)
StartLines == {1, 5}
MaxTokensChoices == {1, 2}
OverlapChoices == {0, 10, 30}

\* type, name, parent and doc comment of the symbols tried
Shapes ==
    { [type |-> "function", name |-> Undefined, parent |-> Undefined,
       docComment |-> Undefined],
      [type |-> "function", name |-> Str(<<"f">>), parent |-> Undefined,
       docComment |-> Str(<<"d">>)],
      [type |-> "method", name |-> Str(<<"m">>), parent |-> Str(<<"C">>),
       docComment |-> Undefined],
      [type |-> "class", name |-> Str(<<"g">>), parent |-> Str(<<"C">>),
       docComment |-> Undefined] }

\* the lines of a symbol's range its text does not hold: none, or one blank
\* line a parser trimmed off the text
TrimmedLines == {0, 1}

\* a parser's symbol: its text has endLine - startLine + 1 lines, or fewer
\* when the parser trimmed it
Symbols ==
    { [type |-> sh.type, name |-> sh.name, parent |-> sh.parent,
       docComment |-> sh.docComment, startLine |-> sl,
       endLine |-> sl + Len(Split(t, "\n")) - 1 + trimmed, text |-> t]
      : sh \in Shapes, sl \in StartLines, t \in Texts, trimmed \in TrimmedLines }

Configs == [maxTokens : MaxTokensChoices, overlap : OverlapChoices]

SplitFile == [relativePath |-> <<"p">>, language |-> "typescript"]
SplitRepo == [name |-> <<"r">>, branch |-> <<"m">>, commit |-> <<"k">>]

InitSplit ==
    /\ symbol \in Symbols
    /\ config \in Configs
    /\ chunks = <<>>
    /\ chunked = FALSE
    /\ IdIdle
    /\ FileIdle
    /\ IndexIdle
    /\ RunIdle

SymbolToChunks ==
    /\ ~chunked
    /\ chunks' = symbolToChunks(symbol, SplitFile, SplitRepo, config)
    /\ chunked' = TRUE
    /\ UNCHANGED <<symbol, config, varsId, varsFile, varsIndex, varsRun>>

NextSplit == SymbolToChunks

-----------------------------------------------------------------------------
(* parser/chunker.ts: chunkFile *)

\* content.trim().length === 0
IsBlank(content) == \A i \in 1..Len(content) : content[i] \in {" ", "\n", "\t"}

\* relativePath.split("/").pop()
Basename(relativePath) ==
    LET segs == Split(relativePath, "/") IN segs[Len(segs)]

createFileSymbol(content, fileInfo) ==
    <<[type |-> "file", name |-> Str(Basename(fileInfo.relativePath)),
       parent |-> Undefined, docComment |-> Undefined,
       startLine |-> 1, endLine |-> Len(Split(content, "\n")), text |-> content]>>

\* language-detector.ts: AST_SUPPORTED_LANGUAGES
supportsAstParsing(language) ==
    language \in {"java", "typescript", "javascript", "python"}

\* the keys of Chunker.parsers
HasParser(language) ==
    language \in {"typescript", "javascript", "java", "python", "yaml", "json",
                  "config", "sql"}

RECURSIVE SymbolsToChunks(_, _, _, _)
SymbolsToChunks(symbols, fileInfo, repo, cfg) ==
    IF Len(symbols) = 0 THEN <<>>
    ELSE symbolToChunks(Head(symbols), fileInfo, repo, cfg)
         \o SymbolsToChunks(Tail(symbols), fileInfo, repo, cfg)

\* chunkFile: [raised, chunks].  A file carries what the file system and the
\* Symbol Source answer for it: readable, content, parse = [raises, symbols].
chunkFile(file, repo, cfg) ==
    IF ~file.readable THEN [raised |-> TRUE, chunks |-> <<>>]
    ELSE IF IsBlank(file.content) THEN [raised |-> FALSE, chunks |-> <<>>]
    ELSE IF HasParser(file.language) /\ supportsAstParsing(file.language)
    THEN [raised |-> FALSE,
          chunks |-> SymbolsToChunks(
                         IF file.parse.raises
                         THEN createFileSymbol(file.content, file)
                         ELSE file.parse.symbols, file, repo, cfg)]
    ELSE IF HasParser(file.language)
    THEN IF file.parse.raises THEN [raised |-> TRUE, chunks |-> <<>>]
         ELSE [raised |-> FALSE,
               chunks |-> SymbolsToChunks(file.parse.symbols, file, repo, cfg)]
    ELSE [raised |-> FALSE,
          chunks |-> SymbolsToChunks(createFileSymbol(file.content, file),
                                     file, repo, cfg)]

-----------------------------------------------------------------------------
(* The repositories and files the pipeline runs on *)

\* config.chunking of the pipeline
PipelineChunking == [maxTokens |-> 1, overlap |-> 0]

\* two directories under rootDir: "a" and "a:b", both at commit "k"
RepoA == [name |-> <<"a">>, branch |-> <<"m">>, commit |-> <<"k">>]
RepoB == [name |-> <<"a", ":", "b">>, branch |-> <<"m">>, commit |-> <<"k">>]
RepoLists == {<<RepoA, RepoB>>, <<RepoB, RepoA>>}

ParseRaises == [raises |-> TRUE, symbols |-> <<>>]

\* c/f.ts-like file the AST parser fails on: two lines, split into two parts
FileCF ==
    [relativePath |-> <<"c", "/", "f">>, language |-> "typescript",
     readable |-> TRUE, content |-> <<"a", "a", "a", "\n", "b", "b">>,
     parse |-> ParseRaises]
\* the same file under the directory "b:c"
FileBCF ==
    [relativePath |-> <<"b", ":", "c", "/", "f">>, language |-> "typescript",
     readable |-> TRUE, content |-> <<"a", "a", "a", "\n", "b", "b">>,
     parse |-> ParseRaises]
\* a one-chunk file
FileD ==
    [relativePath |-> <<"d">>, language |-> "typescript",
     readable |-> TRUE, content |-> <<"x">>, parse |-> ParseRaises]
\* a file whose SQL parser raises
FileBad ==
    [relativePath |-> <<"q">>, language |-> "sql",
     readable |-> TRUE, content |-> <<"s">>, parse |-> ParseRaises]
\* a whitespace-only file
FileBlank ==
    [relativePath |-> <<"w">>, language |-> "typescript",
     readable |-> TRUE, content |-> <<" ", "\n">>, parse |-> ParseRaises]

FilesOfA == {<<>>, <<FileD, FileBad, FileBCF>>}
FilesOfB == {<<FileCF>>, <<FileBlank>>}

Worlds == [list : RepoLists, filesA : FilesOfA, filesB : FilesOfB]

\* the values of options.targetRepo tried
TargetRepos == {Undefined, Str(RepoA.name), Str(RepoB.name), Str(<<"z">>)}

FilesIn(w, repo) == IF repo = RepoA THEN w.filesA ELSE w.filesB

-----------------------------------------------------------------------------
(* indexer/opensearch-client.ts and indexer/bulk-indexer.ts *)

\* BulkIndexer's default batchSize
BulkBatchSize == 100
\* batchSize of EmbeddingService.embedBatchWithProgress
EmbedBatchSize == 50

\* the vector the provider returns for a text
VectorOf(text) == <<Len(text)>>


\* a deleteByQuery without the term filter on repo
deleteRepoChunks_All(st, repoName) == EmptyStore

\* deleteByQuery { term: { repo } }
deleteRepoChunks(st, repoName) ==
    [i \in {j \in DOMAIN st : st[j].repo # repoName} |-> st[i]]

\* the index operations of one bulk request, applied in order; failing is the
\* set of positions the response reports an error for
RECURSIVE BulkApply(_, _, _, _)
BulkApply(st, documents, k, failing) ==
    IF k > Len(documents) THEN st
    ELSE BulkApply(IF k \in failing THEN st
                   ELSE (documents[k].id :> documents[k]) @@ st,
                   documents, k + 1, failing)

\* `${item.index._id}: ${item.index.error.type} - ${item.index.error.reason}`
RECURSIVE BulkErrors(_, _, _)
BulkErrors(documents, k, failing) ==
    IF k > Len(documents) THEN <<>>
    ELSE (IF k \in failing
          THEN <<documents[k].id \o <<": ", "mapper_parsing_exception", " - ", "reason">>>>
          ELSE <<>>)
         \o BulkErrors(documents, k + 1, failing)

\* a bulkIndex that does not read the items of the response
bulkIndexResult_IgnoresItems(documents, failing) ==
    [successful |-> Len(documents), failed |-> 0, errors |-> <<>>]

\* what bulkIndex returns for a response that reports `failing`
bulkIndexResult(documents, failing) ==
    [successful |-> Len(documents) - Cardinality(failing),
     failed |-> Cardinality(failing),
     errors |-> BulkErrors(documents, 1, failing)]

\* the items a bulk response reports as failed: none, the first, or all
BulkFailures(batch) == {{}, {1} \cap (1..Len(batch)), 1..Len(batch)}

\* a slice that starts one element early: slice(i - 1, i + batchSize)
Batch_Overlapping(list, i, batchSize) ==
    SubSeq(list, IF i = 0 THEN 1 ELSE i, IF i + batchSize < Len(list) THEN i + batchSize ELSE Len(list))

\* texts.slice(i, i + batchSize) (0-based i)
Batch(list, i, batchSize) == SubSeq(list, i + 1, Min(i + batchSize, Len(list)))

-----------------------------------------------------------------------------
(* pipeline/ingestion-pipeline.ts *)




\* `Failed to process ${repo.name}: ${error.message}`
FailedToProcess(repoName, message) ==
    <<"Failed to process ">> \o repoName \o <<": ">> \o message

CurrentRepo == repos[repoIdx]

\* an optional number of an IngestionStatus
NoNum == [defined |-> FALSE, num |-> 0]
Num(n) == [defined |-> TRUE, num |-> n]

\* an IngestionStatus
Status(phase, repo, file_, filesProcessed, totalFiles, chunksCreated, chunksIndexed) ==
    [phase |-> phase, repo |-> repo, file |-> file_,
     filesProcessed |-> filesProcessed, totalFiles |-> totalFiles,
     chunksCreated |-> chunksCreated, chunksIndexed |-> chunksIndexed]

\* a call to the vector store or to the embedding service, made while the
\* repository of that name is processed (<<>> before the repository loop)
CallOf(op, repoName) == [op |-> op, repo |-> repoName]

\* the places of run() that call the vector store or the embedding service
CallSites == {"ping", "indexExists", "createEmbedding", "delete", "embed", "bulk"}

\* the call made at the place run() stands at
CallAt ==
    CASE pc = "ping" -> CallOf("store.ping", <<>>)
      [] pc = "indexExists" -> CallOf("store.indexExists", <<>>)
      [] pc = "createEmbedding" -> CallOf("embedding.initialize", <<>>)
      [] pc = "delete" -> CallOf("store.delete", CurrentRepo.name)
      [] pc = "embed" -> CallOf("embedding.embedBatch", CurrentRepo.name)
      [] pc = "bulk" -> CallOf("store.bulk", CurrentRepo.name)

\* the calls in flight without the first occurrence of c
RECURSIVE RemoveCall(_, _)
RemoveCall(cs, c) ==
    IF cs = <<>> THEN <<>>
    ELSE IF Head(cs) = c THEN Tail(cs)
    ELSE <<Head(cs)>> \o RemoveCall(Tail(cs), c)

\* a collaborator whose calls neither return nor raise
Awaited_Never == FALSE

\* the awaited call is in flight: it can return or raise
Awaited == awaiting /\ \E k \in 1..Len(inflight) : inflight[k] = CallAt

\* a run() that goes on while the call it issued is still in flight
Resume_NotAwaited ==
    /\ inflight' = inflight
    /\ awaiting' = FALSE
    /\ UNCHANGED calls

\* the awaited call has returned or raised: run() goes on
Resume ==
    /\ inflight' = RemoveCall(inflight, CallAt)
    /\ awaiting' = FALSE
    /\ UNCHANGED calls

\* a file loop that ends at the first file whose chunking raises
RECURSIVE ChunkAll_Abort(_, _, _)
ChunkAll_Abort(files, repo, acc) ==
    IF Len(files) = 0 THEN acc
    ELSE LET r == chunkFile(Head(files), repo, PipelineChunking)
         IN IF r.raised THEN acc
            ELSE ChunkAll_Abort(Tail(files), repo,
                          [allChunks |-> acc.allChunks \o r.chunks,
                           filesProcessed |-> acc.filesProcessed + 1])

\* the file loop of processRepository: [allChunks, filesProcessed]
RECURSIVE ChunkAll(_, _, _)
ChunkAll(files, repo, acc) ==
    IF Len(files) = 0 THEN acc
    ELSE LET r == chunkFile(Head(files), repo, PipelineChunking)
         IN ChunkAll(Tail(files), repo,
                     IF r.raised THEN acc
                     ELSE [allChunks |-> acc.allChunks \o r.chunks,
                           filesProcessed |-> acc.filesProcessed + 1])

\* the file loop of processRepository: the status reported before each file
RECURSIVE ParsingEvents(_, _, _, _)
ParsingEvents(files, repo, filesProcessed, totalFiles) ==
    IF Len(files) = 0 THEN <<>>
    ELSE <<Status("parsing", Str(repo.name), Str(Head(files).relativePath),
                  Num(filesProcessed), Num(totalFiles), NoNum, NoNum)>>
         \o ParsingEvents(Tail(files), repo,
                IF chunkFile(Head(files), repo, PipelineChunking).raised
                THEN filesProcessed ELSE filesProcessed + 1,
                totalFiles)

Init ==
    /\ world \in Worlds
    /\ worldChanged = FALSE
    /\ store = EmptyStore
    /\ pc = "idle"
    /\ dryRun = FALSE
    /\ repos = <<>>
    /\ repoIdx = 1
    /\ result = ZeroResult
    /\ proc = ProcIdle
    /\ calls = <<>>
    /\ inflight = <<>>
    /\ awaiting = FALSE
    /\ preflight = NoPreflight
    /\ events = <<>>
    /\ upserted = {}
    /\ attempted = <<>>
    /\ raisedBy = <<>>
    /\ prev = NoPrev
    /\ IdIdle
    /\ SplitIdle
    /\ FileIdle
    /\ IndexIdle

\* between two runs a repository's files, or the set of repositories, change
WorldChanges ==
    /\ pc \in {"idle", "done", "raised"}
    /\ ~worldChanged
    /\ \E w \in Worlds \ {world} : world' = w
    /\ worldChanged' = TRUE
    /\ UNCHANGED <<store, pc, dryRun, repos, repoIdx, result, proc, calls,
                   inflight, awaiting, preflight, events,
                   upserted, attempted, raisedBy, prev>>
    /\ UNCHANGED <<varsId, varsSplit, varsFile, varsIndex>>

\* run(options) is called
StartRun ==
    /\ pc \in {"idle", "done", "raised"}
    /\ \E d \in BOOLEAN : dryRun' = d
    /\ pc' = "ping"
    /\ prev' = [returned |-> pc = "done", dryRun |-> dryRun,
                clean |-> result.failed = 0 /\ result.errors = <<>>,
                sameWorld |-> ~worldChanged, repos |-> repos, store |-> store]
    /\ worldChanged' = FALSE
    /\ repos' = <<>>
    /\ repoIdx' = 1
    /\ result' = ZeroResult
    /\ proc' = ProcIdle
    /\ calls' = <<>>
    /\ inflight' = <<>>
    /\ awaiting' = FALSE
    /\ preflight' = NoPreflight
    /\ events' = <<>>
    /\ upserted' = {}
    /\ attempted' = <<>>
    /\ raisedBy' = <<>>
    /\ UNCHANGED <<world, store>>
    /\ UNCHANGED <<varsId, varsSplit, varsFile, varsIndex>>

\* run() issues the call of the place it stands at, and awaits it
Call ==
    /\ pc \in CallSites
    /\ ~awaiting
    /\ calls' = Append(calls, CallAt)
    /\ inflight' = Append(inflight, CallAt)
    /\ awaiting' = TRUE
    /\ UNCHANGED <<world, worldChanged, store, pc, dryRun, repos, repoIdx, result,
                   proc, preflight, events, upserted, attempted, raisedBy, prev>>
    /\ UNCHANGED <<varsId, varsSplit, varsFile, varsIndex>>

\* initialize(): osClient.ping() answered
Ping ==
    /\ pc = "ping" /\ Awaited
    /\ Resume
    /\ \E isConnected \in BOOLEAN :
          /\ preflight' = [preflight EXCEPT !.isConnected = isConnected]
          /\ pc' = IF isConnected THEN "indexExists" ELSE "raised"
    /\ UNCHANGED <<world, worldChanged, store, dryRun, repos, repoIdx, result, proc,
                   events, upserted, attempted, raisedBy, prev>>
    /\ UNCHANGED <<varsId, varsSplit, varsFile, varsIndex>>

\* an initialize() that goes on whatever osClient.indexExists() answers
IndexExists_Ignored ==
    /\ pc = "indexExists" /\ Awaited
    /\ Resume
    /\ \E indexExists \in BOOLEAN :
          /\ preflight' = [preflight EXCEPT !.indexExists = indexExists]
          /\ pc' = "createEmbedding"
    /\ UNCHANGED <<world, worldChanged, store, dryRun, repos, repoIdx, result, proc,
                   events, upserted, attempted, raisedBy, prev>>
    /\ UNCHANGED <<varsId, varsSplit, varsFile, varsIndex>>

\* initialize(): osClient.indexExists() answered
IndexExists ==
    /\ pc = "indexExists" /\ Awaited
    /\ Resume
    /\ \E indexExists \in BOOLEAN :
          /\ preflight' = [preflight EXCEPT !.indexExists = indexExists]
          /\ pc' = IF indexExists THEN "createEmbedding" ELSE "raised"
    /\ UNCHANGED <<world, worldChanged, store, dryRun, repos, repoIdx, result, proc,
                   events, upserted, attempted, raisedBy, prev>>
    /\ UNCHANGED <<varsId, varsSplit, varsFile, varsIndex>>

\* initialize(): EmbeddingService.create, which awaits provider.initialize(),
\* returned or raised
CreateEmbeddingService ==
    /\ pc = "createEmbedding" /\ Awaited
    /\ Resume
    /\ \E ok \in BOOLEAN : pc' = IF ok THEN "discover" ELSE "raised"
    /\ UNCHANGED <<world, worldChanged, store, dryRun, repos, repoIdx, result, proc,
                   preflight, events, upserted, attempted, raisedBy, prev>>
    /\ UNCHANGED <<varsId, varsSplit, varsFile, varsIndex>>

\* RepoScanner.getRepository: the repository of that name, if there is one
getRepository(w, repoName) ==
    SelectSeq(w.list, LAMBDA r : r.name = repoName)

\* run(): the "scanning" status, then the repositories to process:
\* options.targetRepo, or all those discovered
Discover ==
    /\ pc = "discover"
    /\ events' = Append(events, Status("scanning", Undefined, Undefined,
                                       NoNum, NoNum, NoNum, NoNum))
    /\ \E targetRepo \in TargetRepos :
          IF Truthy(targetRepo)
          THEN LET found == getRepository(world, targetRepo.str)
               IN IF found = <<>>
                  THEN /\ pc' = "raised"
                       /\ UNCHANGED <<repos, result>>
                  ELSE /\ repos' = <<found[1]>>
                       /\ result' = [result EXCEPT !.repositories = 1]
                       /\ pc' = "loop"
          ELSE \/ /\ repos' = world.list
                  /\ result' = [result EXCEPT !.repositories = Len(world.list)]
                  /\ pc' = "loop"
               \/ \* discoverRepositories raises: readdirSync(rootDir) fails
                  /\ pc' = "raised"
                  /\ UNCHANGED <<repos, result>>
    /\ UNCHANGED <<world, worldChanged, store, dryRun, repoIdx, proc, calls,
                   inflight, awaiting, preflight, upserted, attempted, raisedBy,
                   prev>>
    /\ UNCHANGED <<varsId, varsSplit, varsFile, varsIndex>>

\* processRepository returned r: the try block of the repository loop
RepoReturns(r) ==
    /\ result' = [result EXCEPT !.files = @ + r.files,
                                !.chunks = @ + r.chunks,
                                !.indexed = @ + r.indexed,
                                !.failed = @ + r.failed,
                                !.errors = @ \o r.errors]
    /\ repoIdx' = repoIdx + 1
    /\ pc' = "loop"
    /\ proc' = ProcIdle
    /\ UNCHANGED raisedBy

\* a catch block that gives up the run
RepoRaises_Abort(message) ==
    /\ result' = [result EXCEPT !.errors =
                      Append(@, FailedToProcess(CurrentRepo.name, message))]
    /\ raisedBy' = Append(raisedBy, [repo |-> CurrentRepo.name, message |-> message])
    /\ repoIdx' = Len(repos) + 1
    /\ pc' = "loop"
    /\ proc' = ProcIdle

\* processRepository raised: the catch block of the repository loop
RepoRaises(message) ==
    /\ result' = [result EXCEPT !.errors =
                      Append(@, FailedToProcess(CurrentRepo.name, message))]
    /\ raisedBy' = Append(raisedBy, [repo |-> CurrentRepo.name, message |-> message])
    /\ repoIdx' = repoIdx + 1
    /\ pc' = "loop"
    /\ proc' = ProcIdle

\* processRepository: enumerateFiles, and the return for a repository without files
Enumerate ==
    /\ pc = "loop" /\ repoIdx <= Len(repos)
    /\ attempted' = Append(attempted, CurrentRepo.name)
    /\ LET scanning == Status("scanning", Str(CurrentRepo.name), Undefined,
                              NoNum, NoNum, NoNum, NoNum)
           files == FilesIn(world, CurrentRepo)
       IN \/ /\ RepoRaises(<<"enumerate failed">>)
             /\ events' = Append(events, scanning)
          \/ /\ files = <<>>
             /\ RepoReturns([files |-> 0, chunks |-> 0, indexed |-> 0, failed |-> 0,
                             errors |-> <<>>])
             /\ events' = Append(events, scanning)
          \/ /\ files # <<>>
             /\ proc' = [proc EXCEPT !.files = files]
             /\ pc' = "chunk"
             /\ events' = events \o
                    <<scanning,
                      Status("parsing", Str(CurrentRepo.name), Undefined,
                             NoNum, Num(Len(files)), NoNum, NoNum)>>
             /\ UNCHANGED <<result, repoIdx, raisedBy>>
    /\ UNCHANGED <<world, worldChanged, store, dryRun, repos, calls, inflight,
                   awaiting, preflight, upserted, prev>>
    /\ UNCHANGED <<varsId, varsSplit, varsFile, varsIndex>>

\* the "embedding" status reported before reindexRepository is called
EmbeddingStarts(allChunks) ==
    Status("embedding", Str(CurrentRepo.name), Undefined, NoNum, NoNum,
           Num(Len(allChunks)), NoNum)

\* a file loop that skips the files of a repository the index already holds
ChunkFiles_SkipIndexed ==
    /\ pc = "chunk"
    /\ LET c == IF \E id \in DOMAIN store : store[id].repo = CurrentRepo.name
                THEN [allChunks |-> <<>>, filesProcessed |-> 0]
                ELSE ChunkAll(proc.files, CurrentRepo,
                              [allChunks |-> <<>>, filesProcessed |-> 0])
           parsing == ParsingEvents(proc.files, CurrentRepo, 0, Len(proc.files))
       IN IF dryRun
          THEN /\ RepoReturns([files |-> c.filesProcessed,
                               chunks |-> Len(c.allChunks),
                               indexed |-> 0, failed |-> 0, errors |-> <<>>])
               /\ events' = events \o parsing
          ELSE /\ proc' = [proc EXCEPT !.allChunks = c.allChunks,
                                       !.filesProcessed = c.filesProcessed]
               /\ pc' = "delete"
               /\ events' = events \o parsing \o <<EmbeddingStarts(c.allChunks)>>
               /\ UNCHANGED <<result, repoIdx, raisedBy>>
    /\ UNCHANGED <<world, worldChanged, store, dryRun, repos, calls, inflight,
                   awaiting, preflight, upserted, attempted, prev>>
    /\ UNCHANGED <<varsId, varsSplit, varsFile, varsIndex>>

\* processRepository: the file loop, the dry-run return, the "embedding" status
ChunkFiles ==
    /\ pc = "chunk"
    /\ LET c == ChunkAll(proc.files, CurrentRepo,
                         [allChunks |-> <<>>, filesProcessed |-> 0])
           parsing == ParsingEvents(proc.files, CurrentRepo, 0, Len(proc.files))
       IN IF dryRun
          THEN /\ RepoReturns([files |-> c.filesProcessed,
                               chunks |-> Len(c.allChunks),
                               indexed |-> 0, failed |-> 0, errors |-> <<>>])
               /\ events' = events \o parsing
          ELSE /\ proc' = [proc EXCEPT !.allChunks = c.allChunks,
                                       !.filesProcessed = c.filesProcessed]
               /\ pc' = "delete"
               /\ events' = events \o parsing \o <<EmbeddingStarts(c.allChunks)>>
               /\ UNCHANGED <<result, repoIdx, raisedBy>>
    /\ UNCHANGED <<world, worldChanged, store, dryRun, repos, calls, inflight,
                   awaiting, preflight, upserted, attempted, prev>>
    /\ UNCHANGED <<varsId, varsSplit, varsFile, varsIndex>>

\* what processRepository returns once indexChunks returned
IndexedReturn(successful, failed, errors) ==
    RepoReturns([files |-> proc.filesProcessed, chunks |-> Len(proc.allChunks),
                 indexed |-> successful, failed |-> failed, errors |-> errors])

\* Math.min(i + batchSize, total): the completed count of a progress report
ProgressCompleted(i, batchSize, total) == Min(i + batchSize, total)

\* the status the progress adapter of processRepository reports
ProgressStatus(phase, completed) ==
    Status(phase, Str(CurrentRepo.name), Undefined, NoNum, NoNum,
           Num(Len(proc.allChunks)), Num(completed))

\* a reindexRepository that starts indexChunks without awaiting deleteRepoChunks
DeleteRepoChunks_NotAwaited ==
    /\ pc = "delete" /\ Awaited
    /\ awaiting' = FALSE
    /\ IF Len(proc.allChunks) = 0
       THEN IndexedReturn(0, 0, <<>>)
       ELSE /\ pc' = "embed"
            /\ proc' = [proc EXCEPT !.i = 0, !.embeddings = <<>>]
            /\ UNCHANGED <<result, repoIdx, raisedBy>>
    /\ UNCHANGED <<world, worldChanged, store, dryRun, repos, calls, inflight,
                   preflight, events, upserted, attempted, prev>>
    /\ UNCHANGED <<varsId, varsSplit, varsFile, varsIndex>>

\* reindexRepository: deleteRepoChunks returned or raised; indexChunks starts
DeleteRepoChunks ==
    /\ pc = "delete" /\ Awaited
    /\ Resume
    /\ \/ /\ RepoRaises(<<"delete failed">>)
          /\ UNCHANGED store
       \/ /\ store' = deleteRepoChunks(store, CurrentRepo.name)
          /\ IF Len(proc.allChunks) = 0
             THEN IndexedReturn(0, 0, <<>>)
             ELSE /\ pc' = "embed"
                  /\ proc' = [proc EXCEPT !.i = 0, !.embeddings = <<>>]
                  /\ UNCHANGED <<result, repoIdx, raisedBy>>
    /\ UNCHANGED <<world, worldChanged, dryRun, repos, preflight, events, upserted,
                   attempted, prev>>
    /\ UNCHANGED <<varsId, varsSplit, varsFile, varsIndex>>

\* embedBatchWithProgress: one provider.embedBatch call returned or raised
EmbedBatch ==
    /\ pc = "embed" /\ Awaited
    /\ Resume
    /\ \/ /\ RepoRaises(<<"embed failed">>)
          /\ UNCHANGED events
       \/ LET batch == Batch(proc.allChunks, proc.i, EmbedBatchSize)
              embs == proc.embeddings \o [k \in 1..Len(batch) |-> VectorOf(batch[k].text)]
              next == proc.i + EmbedBatchSize
          IN /\ proc' = [proc EXCEPT !.embeddings = embs,
                                     !.i = IF next < Len(proc.allChunks) THEN next ELSE 0]
             /\ pc' = IF next < Len(proc.allChunks) THEN "embed" ELSE "bulk"
             /\ events' = Append(events,
                    ProgressStatus("embedding",
                        ProgressCompleted(proc.i, EmbedBatchSize, Len(proc.allChunks))))
             /\ UNCHANGED <<result, repoIdx, raisedBy>>
    /\ UNCHANGED <<world, worldChanged, store, dryRun, repos, preflight, upserted,
                   attempted, prev>>
    /\ UNCHANGED <<varsId, varsSplit, varsFile, varsIndex>>

\* indexChunks: one client.bulkIndex call returned or raised
BulkIndex ==
    /\ pc = "bulk" /\ Awaited
    /\ Resume
    /\ \/ /\ RepoRaises(<<"bulk failed">>)
          /\ UNCHANGED <<store, upserted, events>>
       \/ LET chunksWithEmbeddings ==
                  [k \in 1..Len(proc.allChunks) |->
                      [embedding |-> proc.embeddings[k]] @@ proc.allChunks[k]]
              batch == Batch(chunksWithEmbeddings, proc.i, BulkBatchSize)
              next == proc.i + BulkBatchSize
          IN \E failing \in BulkFailures(batch) :
               LET r == bulkIndexResult(batch, failing)
                   ok == proc.totalSuccessful + r.successful
                   ko == proc.totalFailed + r.failed
                   errs == proc.allErrors \o r.errors
               IN /\ store' = BulkApply(store, batch, 1, failing)
                  /\ upserted' = upserted \cup
                         {batch[k].id : k \in (1..Len(batch)) \ failing}
                  /\ events' = Append(events,
                         ProgressStatus("indexing",
                             ProgressCompleted(proc.i, BulkBatchSize,
                                               Len(chunksWithEmbeddings))))
                  /\ IF next < Len(chunksWithEmbeddings)
                     THEN /\ proc' = [proc EXCEPT !.i = next,
                                                  !.totalSuccessful = ok,
                                                  !.totalFailed = ko,
                                                  !.allErrors = errs]
                          /\ UNCHANGED <<pc, result, repoIdx, raisedBy>>
                     ELSE IndexedReturn(ok, ko, errs)
    /\ UNCHANGED <<world, worldChanged, dryRun, repos, preflight, attempted, prev>>
    /\ UNCHANGED <<varsId, varsSplit, varsFile, varsIndex>>

\* a run() that returns without reporting the "done" status
Done_Silent ==
    /\ pc = "loop" /\ repoIdx > Len(repos)
    /\ pc' = "done"
    /\ UNCHANGED <<world, worldChanged, store, dryRun, repos, repoIdx, result, proc,
                   calls, inflight, awaiting, preflight, events, upserted, attempted,
                   raisedBy, prev>>
    /\ UNCHANGED <<varsId, varsSplit, varsFile, varsIndex>>

\* the repository loop is over: the "done" status, and run() returns result
Done ==
    /\ pc = "loop" /\ repoIdx > Len(repos)
    /\ pc' = "done"
    /\ events' = Append(events, Status("done", Undefined, Undefined,
                                       NoNum, NoNum, NoNum, NoNum))
    /\ UNCHANGED <<world, worldChanged, store, dryRun, repos, repoIdx, result, proc,
                   calls, inflight, awaiting, preflight, upserted, attempted,
                   raisedBy, prev>>
    /\ UNCHANGED <<varsId, varsSplit, varsFile, varsIndex>>

Next ==
    \/ WorldChanges
    \/ StartRun
    \/ Call
    \/ Ping
    \/ IndexExists
    \/ CreateEmbeddingService
    \/ Discover
    \/ Enumerate
    \/ ChunkFiles
    \/ DeleteRepoChunks
    \/ EmbedBatch
    \/ BulkIndex
    \/ Done

-----------------------------------------------------------------------------
(* Specifications *)

SpecId == InitId /\ [][NextId]_vars
SpecSplit == InitSplit /\ [][NextSplit]_vars
Spec == Init /\ [][Next]_vars


-----------------------------------------------------------------------------
(* Chunk builder properties *)

\* the symbol was chunked and its text is longer than maxTokens*4 characters
Oversized == chunked /\ Len(symbol.text) > config.maxTokens * 4

\* C1: every symbol whose text is longer than maxTokens*4 characters, whatever
\* its line layout, is emitted as more than one chunk.
C1_MoreThanOneChunk == Oversized => Len(chunks) > 1

\* C2: every chunk of a split symbol has a text of at most maxTokens*4
\* characters plus the context-header line.
C2_PartSize ==
    Oversized =>
        \A i \in 1..Len(chunks) :
            Len(chunks[i].text) <= config.maxTokens * 4 + Len(ContextHeader(symbol))

\* C3: the chunks of one split symbol have pairwise different start_line
\* values and pairwise different ids, for named and unnamed symbols.
C3_DistinctParts ==
    Oversized =>
        \A i, j \in 1..Len(chunks) :
            i # j => /\ chunks[i].start_line # chunks[j].start_line
                     /\ chunks[i].id # chunks[j].id

\* C5: with overlap > 0, each part after the first starts overlapLines lines
\* before the end of the part before it:
\* start_line(i+1) = end_line(i) - overlapLines + 1.
C5_OverlapContinuity ==
    (Oversized /\ config.overlap > 0 /\ Len(chunks) > 1) =>
        \A i \in 1..(Len(chunks) - 1) :
            chunks[i + 1].start_line
                = chunks[i].end_line - OverlapLines(config.overlap) + 1

-----------------------------------------------------------------------------
(* Chunk id properties *)

IdFields == {"repo", "path", "symbolName", "startLine", "commit"}

\* the two calls kept were made on arguments that differ in exactly one field
OneArgChanged ==
    /\ Len(idCalls) = 2
    /\ Cardinality({f \in IdFields : idCalls[1].args[f] # idCalls[2].args[f]}) = 1

-----------------------------------------------------------------------------
(* Pipeline properties *)

\* number of documents of a repository in an index
DocCount(st, repoName) == Cardinality({id \in DOMAIN st : st[id].repo = repoName})

\* the run returned without a failed chunk and without an error
CleanRun == result.failed = 0 /\ result.errors = <<>>

\* a non-dry run has returned, it followed a non-dry run over the same
\* repositories that returned, and no repository changed in between
SecondRunDone ==
    /\ pc = "done" /\ ~dryRun
    /\ prev.returned /\ ~prev.dryRun /\ prev.sameWorld /\ prev.repos = repos

\* the second run left the ids of the first, and no more documents per repository
SameIndex ==
    /\ DOMAIN store = DOMAIN prev.store
    /\ \A k \in 1..Len(repos) :
           DocCount(store, repos[k].name) <= DocCount(prev.store, repos[k].name)

ReindexKeepsOtherRepos ==
    pc \in {"delete", "embed", "bulk"} =>
        \A id \in DOMAIN store :
            store[id].repo # CurrentRepo.name =>
                (id \in DOMAIN store' /\ store[id] = store'[id])

\* C7 as stated: reindexRepository for one repository neither deletes nor
\* overwrites a stored document whose repo field names another repository.
C7_OtherReposUntouched == [][ReindexKeepsOtherRepos]_vars

\* the repository was attempted in this run and its processing did not raise
ProcessedWithoutError(repo) ==
    /\ \E k \in 1..Len(attempted) : attempted[k] = repo.name
    /\ \A k \in 1..Len(raisedBy) : raisedBy[k].repo # repo.name

\* C8 as stated: after a non-dry run that processed a repository without a
\* repository-level error, every stored document of that repository was
\* written by this run, also for a repository without files or without chunks.
C8_NoStaleDocuments ==
    (pc = "done" /\ ~dryRun) =>
        \A k \in 1..Len(repos) :
            ProcessedWithoutError(repos[k]) =>
                \A id \in DOMAIN store :
                    store[id].repo = repos[k].name => id \in upserted

\* files and chunks a dry run counts for repos[k..], as long as no repository
\* changed since: the repositories whose processing raised count for nothing
RECURSIVE DryRunCounts(_)
DryRunCounts(k) ==
    IF k > Len(repos) THEN [files |-> 0, chunks |-> 0]
    ELSE LET c == IF ProcessedWithoutError(repos[k])
                  THEN ChunkAll(FilesIn(world, repos[k]), repos[k],
                                [allChunks |-> <<>>, filesProcessed |-> 0])
                  ELSE [allChunks |-> <<>>, filesProcessed |-> 0]
             rest == DryRunCounts(k + 1)
         IN [files |-> c.filesProcessed + rest.files,
             chunks |-> Len(c.allChunks) + rest.chunks]

\* C9 as stated: a dry run makes no call to the embedding collaborator and no
\* call to the vector store, and returns indexed = 0, failed = 0, no errors,
\* and the numbers of files chunked and of chunks produced.
C9_DryRunCallsNothing ==
    (pc = "done" /\ dryRun /\ ~worldChanged) =>
        /\ calls = <<>>
        /\ result.indexed = 0
        /\ result.failed = 0
        /\ result.errors = <<>>
        /\ result.files = DryRunCounts(1).files
        /\ result.chunks = DryRunCounts(1).chunks

\* the entries of result.errors written by the catch block of the repository loop
IsRepoFailure(e) == Len(e) > 0 /\ e[1] = "Failed to process "
RepoFailures == SelectSeq(result.errors, IsRepoFailure)

\* C10: run() attempts every discovered repository once, in list order; each
\* repository whose processing raises adds exactly one entry
\* "Failed to process <repo>: <message>" to errors; the repositories after it
\* are still processed and run() returns: it raises only before the first
\* repository.
C10_RepoFailureIsolated ==
    /\ pc = "done" =>
          /\ attempted = [k \in 1..Len(repos) |-> repos[k].name]
          /\ RepoFailures =
                 [k \in 1..Len(raisedBy) |->
                     FailedToProcess(raisedBy[k].repo, raisedBy[k].message)]
    /\ \A k \in 1..Len(attempted) : k <= Len(repos) /\ attempted[k] = repos[k].name
    /\ \A j, k \in 1..Len(raisedBy) : j # k => raisedBy[j].repo # raisedBy[k].repo
    /\ pc = "raised" => attempted = <<>>

\* the run returned after the first of two repositories raised and the second
\* was indexed
C10_Witness ==
    /\ pc = "done" /\ Len(repos) = 2
    /\ Len(raisedBy) = 1 /\ raisedBy[1].repo = repos[1].name
    /\ Len(RepoFailures) = 1
    /\ result.indexed > 0

\* the files of a list whose chunking does not raise, in order
FilesChunked(files, repo) ==
    SelectSeq(files, LAMBDA f : ~chunkFile(f, repo, PipelineChunking).raised)

\* the chunks of the files of a list whose chunking does not raise, in order
RECURSIVE ChunksOfFiles(_, _)
ChunksOfFiles(files, repo) ==
    IF files = <<>> THEN <<>>
    ELSE (IF chunkFile(Head(files), repo, PipelineChunking).raised THEN <<>>
          ELSE chunkFile(Head(files), repo, PipelineChunking).chunks)
         \o ChunksOfFiles(Tail(files), repo)

\* files and chunks of repos[k..] that a returned run counts, as long as no
\* repository changed since: those of the repositories processed without error
RECURSIVE CountsFrom(_)
CountsFrom(k) ==
    IF k > Len(repos) THEN [files |-> 0, chunks |-> 0]
    ELSE LET fs == IF ProcessedWithoutError(repos[k])
                   THEN FilesIn(world, repos[k]) ELSE <<>>
             rest == CountsFrom(k + 1)
         IN [files |-> Len(FilesChunked(fs, repos[k])) + rest.files,
             chunks |-> Len(ChunksOfFiles(fs, repos[k])) + rest.chunks]

\* C11: a file whose chunking raises does not abort the processing of its
\* repository; it is left out of files, and the chunks of all the other files
\* of the repository, before and after it, are produced and counted in chunks.
C11_FileFailureContained ==
    /\ pc \in {"delete", "embed", "bulk"} =>
          /\ proc.filesProcessed = Len(FilesChunked(proc.files, CurrentRepo))
          /\ proc.allChunks = ChunksOfFiles(proc.files, CurrentRepo)
          /\ \A k \in 1..Len(raisedBy) : raisedBy[k].repo # CurrentRepo.name
    /\ (pc = "done" /\ ~worldChanged) =>
          /\ result.files = CountsFrom(1).files
          /\ result.chunks = CountsFrom(1).chunks

\* a run returned that processed, without error, a repository whose second
\* file raised: the file before it and the file after it are counted
C11_Witness ==
    /\ pc = "done" /\ ~worldChanged
    /\ \E k \in 1..Len(repos) :
          LET fs == FilesIn(world, repos[k])
          IN /\ ProcessedWithoutError(repos[k])
             /\ Len(fs) = 3
             /\ ~chunkFile(fs[1], repos[k], PipelineChunking).raised
             /\ chunkFile(fs[2], repos[k], PipelineChunking).raised
             /\ ~chunkFile(fs[3], repos[k], PipelineChunking).raised
             /\ chunkFile(fs[3], repos[k], PipelineChunking).chunks # <<>>
    /\ result.files >= 2
    /\ result.chunks >= 3

\* run() raised because the store did not answer the ping or the index is missing
PreflightFailed ==
    pc = "raised" /\ ~(preflight.isConnected /\ preflight.indexExists)

\* C12: when the vector store is unreachable or the index does not exist,
\* run() raises instead of returning a result, before any repository is
\* discovered or processed and before any delete, embed or bulk-upsert call.
C12_FatalPreflight ==
    /\ pc \notin {"idle", "ping", "raised"} => preflight.isConnected
    /\ pc \notin {"idle", "ping", "indexExists", "raised"} => preflight.indexExists
    /\ PreflightFailed =>
          /\ repos = <<>> /\ result.repositories = 0
          /\ attempted = <<>>
          /\ events = <<>>
          /\ \A k \in 1..Len(calls) : calls[k].op \in {"store.ping", "store.indexExists"}
          /\ store = prev.store

\* run() raised on a missing index while the store holds the documents of an
\* earlier run
C12_Witness ==
    /\ PreflightFailed
    /\ preflight.isConnected
    /\ Len(calls) = 2
    /\ DOMAIN store # {}

\* C13: run() raises only when a pre-flight check failed (store unreachable,
\* index missing); every other failure of an invocation, repository lookup
\* and discovery included, becomes an entry of the returned errors list.
C13_OnlyPreflightRaises ==
    pc = "raised" => PreflightFailed

-----------------------------------------------------------------------------
(* SpecFile: a Chunker is constructed and chunkFile is called on one file *)

\* new Chunker(config): the fields of the configuration the constructor keeps
Chunker(cfg) == [maxTokens |-> cfg.maxTokens, overlap |-> cfg.overlap]

\* the registered languages and one without a parser
FileLanguages ==
    {"typescript", "javascript", "java", "python", "yaml", "json", "config",
     "sql", "markdown"}

\* two short lines, one line, blanks only, two lines of more than four characters
FileContents ==
    {<<"f", "\n", "g">>, <<"x">>, <<" ">>, <<"a", "a", "a", "\n", "b", "b">>}

\* what a parser that does not raise answers: one function per line
RECURSIVE LineSymbols(_, _)
LineSymbols(lines, n) ==
    IF n > Len(lines) THEN <<>>
    ELSE <<[type |-> "function", name |-> Str(lines[n]), parent |-> Undefined,
            docComment |-> Undefined, startLine |-> n, endLine |-> n,
            text |-> lines[n]]>>
         \o LineSymbols(lines, n + 1)

ParseOutcomes(content) ==
    {ParseRaises,
     [raises |-> FALSE, symbols |-> LineSymbols(Split(content, "\n"), 1)]}

FilesTried ==
    UNION { { [relativePath |-> <<"s", "/", "m">>, language |-> l, readable |-> r,
               content |-> c, parse |-> p]
              : l \in FileLanguages, r \in BOOLEAN, p \in ParseOutcomes(c) }
            : c \in FileContents }

\* wholeFile of the configuration: absent, true, false
WholeFileChoices ==
    {[defined |-> FALSE, val |-> FALSE], [defined |-> TRUE, val |-> TRUE],
     [defined |-> TRUE, val |-> FALSE]}

FileConfigs == [maxTokens : {1, 1000}, overlap : {0, 100}, wholeFile : WholeFileChoices]

FileNotChunked == [called |-> FALSE, raised |-> FALSE, chunks |-> <<>>]

InitFile ==
    /\ fileIn \in FilesTried
    /\ fileConfig \in FileConfigs
    /\ fileOut = FileNotChunked
    /\ IdIdle
    /\ SplitIdle
    /\ IndexIdle
    /\ RunIdle

\* new Chunker(fileConfig).chunkFile(fileIn, content, repo)
ChunkFile ==
    /\ ~fileOut.called
    /\ LET out == chunkFile(fileIn, SplitRepo, Chunker(fileConfig))
       IN fileOut' = [called |-> TRUE, raised |-> out.raised, chunks |-> out.chunks]
    /\ UNCHANGED <<fileIn, fileConfig, varsId, varsSplit, varsIndex, varsRun>>

NextFile == ChunkFile

SpecFile == InitFile /\ [][NextFile]_vars

\* the synthetic symbol of the whole file went through the chunk builder
WholeFileFallback ==
    /\ ~fileOut.raised
    /\ fileOut.chunks =
         SymbolsToChunks(createFileSymbol(fileIn.content, fileIn), fileIn,
                         SplitRepo, Chunker(fileConfig))
    /\ Len(fileOut.chunks) >= 1
    /\ \A k \in 1..Len(fileOut.chunks) : fileOut.chunks[k].symbol_type = "file"
    /\ fileOut.chunks[1].start_line = 1
    /\ fileOut.chunks[Len(fileOut.chunks)].end_line =
         Len(Split(fileIn.content, "\n"))

FitsMaxTokens == CeilDiv(Len(fileIn.content), 4) <= fileConfig.maxTokens

\* C15: with wholeFile = true a file whose content fits in maxTokens gives
\* exactly one chunk of symbol_type "file" whose text is the file content,
\* whatever the parser would answer; with wholeFile false or absent the file
\* is chunked by its parser's symbols.
C15_WholeFileMode ==
    /\ (/\ fileOut.called
        /\ fileIn.readable
        /\ ~IsBlank(fileIn.content)
        /\ fileConfig.wholeFile.defined /\ fileConfig.wholeFile.val
        /\ FitsMaxTokens)
       => /\ ~fileOut.raised
          /\ Len(fileOut.chunks) = 1
          /\ fileOut.chunks[1].symbol_type = "file"
          /\ fileOut.chunks[1].text = fileIn.content
    /\ (/\ fileOut.called
        /\ fileIn.readable
        /\ ~IsBlank(fileIn.content)
        /\ ~(fileConfig.wholeFile.defined /\ fileConfig.wholeFile.val)
        /\ HasParser(fileIn.language)
        /\ ~fileIn.parse.raises)
       => /\ ~fileOut.raised
          /\ fileOut.chunks =
               SymbolsToChunks(fileIn.parse.symbols, fileIn, SplitRepo,
                               Chunker(fileConfig))

-----------------------------------------------------------------------------
(* Order of the collaborator calls and of the progress events of a run *)

\* the positions of calls at which deleteRepoChunks(repoName) was issued
DeletesOf(repoName) ==
    {k \in 1..Len(calls) : calls[k] = CallOf("store.delete", repoName)}

IndexingOps == {"embedding.embedBatch", "store.bulk"}

\* the repositories whose processing reached reindexRepository: those the
\* "embedding" status with the chunk count was reported for, but for the one
\* whose delete is not issued yet
ReachedIndexStep ==
    {r \in {repos[k].name : k \in 1..Len(repos)} :
        /\ \E k \in 1..Len(events) :
              /\ events[k].phase = "embedding"
              /\ events[k].repo = Str(r)
              /\ ~events[k].chunksIndexed.defined
        /\ ~(pc = "delete" /\ ~awaiting /\ CurrentRepo.name = r)}

\* C16: in a non-dry-run processing of a repository that reaches the index
\* step, the delete of the repository's chunks is issued and has completed
\* before the first embedding call and the first bulk call for it, and
\* exactly one delete is issued per repository.
C16_DeleteBeforeEmbed ==
    /\ \A k \in 1..Len(calls) :
          calls[k].op \in IndexingOps =>
             /\ \E j \in 1..(k - 1) : calls[j] = CallOf("store.delete", calls[k].repo)
             /\ \A j \in 1..Len(inflight) :
                   inflight[j] # CallOf("store.delete", calls[k].repo)
    /\ \A k \in 1..Len(repos) : Cardinality(DeletesOf(repos[k].name)) <= 1
    /\ \A r \in ReachedIndexStep : Cardinality(DeletesOf(r)) = 1
    /\ dryRun => \A k \in 1..Len(calls) :
                    calls[k].op \notin IndexingOps \cup {"store.delete"}

\* a run returned after it deleted, embedded and upserted for two repositories
C16_Witness ==
    /\ pc = "done"
    /\ Len(repos) = 2
    /\ \A k \in 1..2 :
          /\ repos[k].name \in ReachedIndexStep
          /\ \E j \in 1..Len(calls) : calls[j] = CallOf("store.bulk", repos[k].name)

\* the order of the phases of one repository
PhaseRank(phase) ==
    CASE phase = "scanning" -> 1
      [] phase = "parsing" -> 2
      [] phase = "embedding" -> 3
      [] phase = "indexing" -> 4
      [] OTHER -> 5

\* the position in repos of the repository an event names
RepoPos(e) == CHOOSE k \in 1..Len(repos) : Str(repos[k].name) = e.repo

\* the events of the repositories: all but the first and the "done" event
RepoEvents == {k \in 2..Len(events) : events[k].phase # "done"}

\* the events reported so far are in phase order
EventsInPhaseOrder ==
    /\ events # <<>> =>
          events[1] = Status("scanning", Undefined, Undefined, NoNum, NoNum, NoNum, NoNum)
    /\ \A k \in RepoEvents :
          /\ events[k].repo.defined
          /\ \E j \in 1..Len(repos) : Str(repos[j].name) = events[k].repo
          /\ events[k].phase \in {"scanning", "parsing", "embedding", "indexing"}
    /\ \A k \in RepoEvents :
          IF k - 1 \in RepoEvents /\ events[k - 1].repo = events[k].repo
          THEN PhaseRank(events[k - 1].phase) <= PhaseRank(events[k].phase)
          ELSE /\ events[k].phase = "scanning"
               /\ k - 1 \in RepoEvents => RepoPos(events[k - 1]) < RepoPos(events[k])
    /\ \A k \in 1..Len(events) : events[k].phase = "done" => k = Len(events)

\* C17: in a run() that returns, onProgress sees the run-level scanning
\* status first, then the events of each repository in the order of the
\* repositories, each repository's phases going scanning, parsing, embedding,
\* indexing and never back, events of two repositories not interleaved, and
\* "done" exactly once, as the last event.
C17_PhaseOrder ==
    /\ EventsInPhaseOrder
    /\ pc = "done" =>
          /\ Len(events) >= 2
          /\ events[Len(events)].phase = "done"
          /\ Cardinality({k \in 1..Len(events) : events[k].phase = "done"}) = 1
    /\ pc # "done" => \A k \in 1..Len(events) : events[k].phase # "done"

\* a run returned after it reported all four phases for each of two repositories
C17_Witness ==
    /\ pc = "done"
    /\ Len(repos) = 2
    /\ \A r \in 1..2 :
          \A ph \in {"scanning", "parsing", "embedding", "indexing"} :
             \E k \in RepoEvents :
                events[k].repo = Str(repos[r].name) /\ events[k].phase = ph

-----------------------------------------------------------------------------
(* SpecIndex: the progress processRepository reports for one repository of
   up to MaxIndexFiles files and MaxChunks chunks, batch after batch *)

\* for each file whether chunkFile raises on it
IndexFileLists == UNION {[1..n -> BOOLEAN] : n \in 1..MaxIndexFiles}

\* number of chunks the files gave: none when chunkFile raised on every file
IndexInputs ==
    {[files |-> fs, total |-> n] :
        fs \in IndexFileLists,
        n \in 0..MaxChunks} \ 
    {[files |-> fs, total |-> n] :
        fs \in {g \in IndexFileLists : \A k \in 1..Len(g) : g[k]},
        n \in 1..MaxChunks}

IndexRepoName == Str(SplitRepo.name)

\* chunk k of the repository: its id and its text
IndexChunk(k) == [id |-> ToDecimal(k), text |-> 1000 + k]

\* chunks.map((c) => c.text)
IndexTexts(total) == [k \in 1..total |-> IndexChunk(k).text]

\* provider.embedBatch: one vector per text, in the order of the texts
ProviderVectors(texts) == [k \in 1..Len(texts) |-> <<texts[k]>>]

\* processRepository is called: nothing enumerated, embedded or indexed yet;
\* result is run()'s result before the repository
IndexStart(input) ==
    [files |-> input.files, total |-> input.total, phase |-> "start",
     i |-> 0, filesProcessed |-> 0, progress |-> <<>>,
     embedCalls |-> <<>>, embeddings |-> <<>>,
     bulkCalls |-> <<>>, acknowledged |-> {},
     totalSuccessful |-> 0, totalFailed |-> 0, allErrors |-> <<>>,
     result |-> [ZeroResult EXCEPT !.repositories = 1]]

InitIndex ==
    /\ \E input \in IndexInputs : ix = IndexStart(input)
    /\ IdIdle
    /\ SplitIdle
    /\ FileIdle
    /\ RunIdle

\* processRepository: files enumerated, the "scanning" and "parsing" statuses
ProcessRepository ==
    /\ ix.phase = "start"
    /\ ix' = [ix EXCEPT
                !.phase = "parsing",
                !.i = 1,
                !.progress = <<Status("scanning", IndexRepoName, Undefined,
                                      NoNum, NoNum, NoNum, NoNum),
                               Status("parsing", IndexRepoName, Undefined,
                                      NoNum, Num(Len(ix.files)), NoNum, NoNum)>>]
    /\ UNCHANGED <<varsId, varsSplit, varsFile, varsRun>>

\* processRepository: one turn of the file loop
ChunkOneFile ==
    /\ ix.phase = "parsing" /\ ix.i <= Len(ix.files)
    /\ ix' = [ix EXCEPT
                !.i = @ + 1,
                !.filesProcessed = IF ix.files[ix.i] THEN @ ELSE @ + 1,
                !.progress = Append(@,
                    Status("parsing", IndexRepoName, Str(ToDecimal(ix.i)),
                           Num(ix.filesProcessed), Num(Len(ix.files)), NoNum, NoNum))]
    /\ UNCHANGED <<varsId, varsSplit, varsFile, varsRun>>

\* run(): processRepository raised, the catch block of the repository loop
IndexRaised(message) ==
    [ix EXCEPT !.phase = "raised",
               !.result.errors = Append(@, FailedToProcess(SplitRepo.name, message))]

\* run(): processRepository returned, its counts are added to result
IndexReturned(successful, failed, errors) ==
    [ix EXCEPT !.phase = "returned",
               !.i = 0,
               !.totalSuccessful = successful,
               !.totalFailed = failed,
               !.allErrors = errors,
               !.result.files = @ + ix.filesProcessed,
               !.result.chunks = @ + ix.total,
               !.result.indexed = @ + successful,
               !.result.failed = @ + failed,
               !.result.errors = @ \o errors]

\* processRepository: the "embedding" status; reindexRepository deletes and
\* calls indexChunks, which returns at once when there is no chunk
ReindexRepository ==
    /\ ix.phase = "parsing" /\ ix.i > Len(ix.files)
    /\ LET embedding == Status("embedding", IndexRepoName, Undefined, NoNum, NoNum,
                               Num(ix.total), NoNum)
       IN \/ ix' = [IndexRaised(<<"delete failed">>) EXCEPT
                       !.progress = Append(@, embedding)]
          \/ /\ ix.total = 0
             /\ ix' = [IndexReturned(0, 0, <<>>) EXCEPT
                          !.progress = Append(@, embedding)]
          \/ /\ ix.total > 0
             /\ ix' = [ix EXCEPT !.phase = "embedding",
                                 !.i = 0,
                                 !.progress = Append(@, embedding)]
    /\ UNCHANGED <<varsId, varsSplit, varsFile, varsRun>>

\* the status the progress adapter hands to onProgress
IndexProgress(phase, completed) ==
    Status(phase, IndexRepoName, Undefined, NoNum, NoNum, Num(ix.total),
           Num(completed))

\* embedBatchWithProgress: one batch of EmbedBatchSize texts embedded, or the
\* provider raises
EmbedBatchWithProgress ==
    /\ ix.phase = "embedding"
    /\ LET batch == Batch(IndexTexts(ix.total), ix.i, EmbedBatchSize)
           next == ix.i + EmbedBatchSize
       IN \/ ix' = [IndexRaised(<<"embed failed">>) EXCEPT
                       !.embedCalls = Append(@, batch)]
          \/ ix' = [ix EXCEPT
                      !.phase = IF next < ix.total THEN "embedding" ELSE "indexing",
                      !.i = IF next < ix.total THEN next ELSE 0,
                      !.embedCalls = Append(@, batch),
                      !.embeddings = @ \o ProviderVectors(batch),
                      !.progress = Append(@,
                          IndexProgress("embedding",
                              ProgressCompleted(ix.i, EmbedBatchSize, ix.total)))]
    /\ UNCHANGED <<varsId, varsSplit, varsFile, varsRun>>

\* chunks.map((chunk, i) => ({ ...chunk, embedding: embeddings[i] }))
IndexChunksWithEmbeddings ==
    [k \in 1..ix.total |-> [embedding |-> ix.embeddings[k]] @@ IndexChunk(k)]

\* indexChunks: one batch of BulkBatchSize documents submitted; the store
\* answers with the failed items, or the client raises
BulkIndexBatch ==
    /\ ix.phase = "indexing"
    /\ LET batch == Batch(IndexChunksWithEmbeddings, ix.i, BulkBatchSize)
           next == ix.i + BulkBatchSize
       IN \/ ix' = [IndexRaised(<<"bulk failed">>) EXCEPT
                       !.bulkCalls = Append(@, [first |-> ix.i + 1,
                                                last |-> ix.i + Len(batch),
                                                failing |-> {}])]
          \/ \E failing \in BulkFailures(batch) :
               LET r == bulkIndexResult(batch, failing)
                   bulkCalls == Append(ix.bulkCalls,
                                       [first |-> ix.i + 1,
                                        last |-> ix.i + Len(batch),
                                        failing |-> {ix.i + k : k \in failing}])
                   acknowledged == ix.acknowledged \cup
                       {ix.i + k : k \in (1..Len(batch)) \ failing}
                   progress == Append(ix.progress,
                       IndexProgress("indexing",
                           ProgressCompleted(ix.i, BulkBatchSize, ix.total)))
                   ok == ix.totalSuccessful + r.successful
                   ko == ix.totalFailed + r.failed
                   errs == ix.allErrors \o r.errors
               IN IF next < ix.total
                  THEN ix' = [ix EXCEPT !.i = next,
                                        !.bulkCalls = bulkCalls,
                                        !.acknowledged = acknowledged,
                                        !.progress = progress,
                                        !.totalSuccessful = ok,
                                        !.totalFailed = ko,
                                        !.allErrors = errs]
                  ELSE ix' = [IndexReturned(ok, ko, errs) EXCEPT
                                        !.bulkCalls = bulkCalls,
                                        !.acknowledged = acknowledged,
                                        !.progress = progress]
    /\ UNCHANGED <<varsId, varsSplit, varsFile, varsRun>>

NextIndex ==
    \/ ProcessRepository
    \/ ChunkOneFile
    \/ ReindexRepository
    \/ EmbedBatchWithProgress
    \/ BulkIndexBatch

SpecIndex == InitIndex /\ [][NextIndex]_vars

\* the values of a field of the statuses reported, in the order reported
ReportedChunksIndexed ==
    LET with == SelectSeq(ix.progress, LAMBDA e : e.chunksIndexed.defined)
    IN [k \in 1..Len(with) |-> with[k].chunksIndexed.num]

ReportedFilesProcessed ==
    LET with == SelectSeq(ix.progress, LAMBDA e : e.filesProcessed.defined)
    IN [k \in 1..Len(with) |-> with[k].filesProcessed.num]

NonDecreasing(seq) == \A k \in 2..Len(seq) : seq[k - 1] <= seq[k]

\* C18: for one repository the chunksIndexed values handed to onProgress,
\* over the embedding and the indexing reports and for any number of chunks,
\* never decrease, and the filesProcessed values of the parsing reports never
\* decrease.
C18_MonotonicProgress ==
    /\ NonDecreasing(ReportedChunksIndexed)
    /\ NonDecreasing(ReportedFilesProcessed)

\* the position in repos of the repository a call was made for
CallRepoPos(c) == CHOOSE k \in 1..Len(repos) : repos[k].name = c.repo

\* the calls made while a repository was processed
RepoCalls == {k \in 1..Len(calls) : calls[k].op \in IndexingOps \cup {"store.delete"}}

\* C19: at every moment of a run at most one call to the embedding provider
\* or to the vector store is in flight; a call is started only after the
\* previous one returned, and repository k+1 is not started before
\* repository k finished or failed.
C19_SingleFlow ==
    /\ Len(inflight) <= 1
    /\ awaiting <=> Len(inflight) = 1
    /\ \A k \in 1..Len(inflight) : inflight[k] = calls[Len(calls)]
    /\ Len(attempted) <= Len(repos)
    /\ \A k \in 1..Len(attempted) : attempted[k] = repos[k].name
    /\ pc \in {"chunk", "delete", "embed", "bulk"} => Len(attempted) = repoIdx
    /\ pc = "loop" => Len(attempted) = repoIdx - 1
    /\ \A k \in RepoCalls :
          /\ \E j \in 1..Len(attempted) : attempted[j] = calls[k].repo
          /\ \A j \in RepoCalls : j < k => CallRepoPos(calls[j]) <= CallRepoPos(calls[k])
          /\ pc \in {"chunk", "delete", "embed", "bulk"} =>
                CallRepoPos(calls[k]) <= repoIdx
          /\ pc = "loop" => CallRepoPos(calls[k]) < repoIdx

\* the bulk call of the second repository is in flight, after the calls of
\* the first repository and the embedding call of the second returned
C19_Witness ==
    /\ pc = "bulk" /\ awaiting /\ Len(inflight) = 1
    /\ repoIdx = 2
    /\ inflight[1] = CallOf("store.bulk", repos[2].name)
    /\ \E k \in 1..Len(calls) : calls[k] = CallOf("store.bulk", repos[1].name)
    /\ \E k \in 1..Len(calls) : calls[k] = CallOf("embedding.embedBatch", repos[2].name)

-----------------------------------------------------------------------------
(* SpecLive: one invocation of run() on repositories of one-chunk files and,
   beside it, processRepository's batch loops on a repository of more than
   BulkBatchSize chunks; the runtime resumes what can go on *)

\* a second one-chunk file, of two lines
FileE ==
    [relativePath |-> <<"e">>, language |-> "typescript",
     readable |-> TRUE, content |-> <<"y", "\n", "z">>, parse |-> ParseRaises]

LiveWorlds ==
    [list : {<<RepoA, RepoB>>}, filesA : {<<>>, <<FileD, FileBad, FileE>>},
     filesB : {<<FileD>>, <<FileBlank>>}]

\* one file chunkFile returns for, one it raises for; MaxChunks chunks
LiveIndexInputs ==
    {input \in IndexInputs :
        /\ input.files = <<FALSE, TRUE>>
        /\ input.total = MaxChunks}

InitLive ==
    /\ world \in LiveWorlds
    /\ worldChanged = FALSE
    /\ store = EmptyStore
    /\ pc = "idle"
    /\ dryRun = FALSE
    /\ repos = <<>>
    /\ repoIdx = 1
    /\ result = ZeroResult
    /\ proc = ProcIdle
    /\ calls = <<>>
    /\ inflight = <<>>
    /\ awaiting = FALSE
    /\ preflight = NoPreflight
    /\ events = <<>>
    /\ upserted = {}
    /\ attempted = <<>>
    /\ raisedBy = <<>>
    /\ prev = NoPrev
    /\ \E input \in LiveIndexInputs : ix = IndexStart(input)
    /\ IdIdle
    /\ SplitIdle
    /\ FileIdle

\* one invocation of run()
FirstRun == pc = "idle" /\ StartRun

\* the steps of run() and of the collaborator calls it awaits
RunSteps ==
    \/ Call
    \/ Ping
    \/ IndexExists
    \/ CreateEmbeddingService
    \/ Discover
    \/ Enumerate
    \/ ChunkFiles
    \/ DeleteRepoChunks
    \/ EmbedBatch
    \/ BulkIndex
    \/ Done

NextLive ==
    \/ FirstRun
    \/ RunSteps
    \/ NextIndex

\* the runtime resumes run() whenever it can go on, and every collaborator
\* call that was issued returns or raises
LiveFairness == WF_vars(RunSteps) /\ WF_vars(NextIndex)

SpecLive == InitLive /\ [][NextLive]_vars /\ LiveFairness

\* run() was called and has neither returned nor raised
Running == pc \notin {"idle", "done", "raised"}

\* C20: when every collaborator call returns or raises, an invocation of
\* run() ends: it returns its result after the "done" status, or it raises.
C20_Termination ==
    /\ Running ~> (pc \in {"done", "raised"})
    /\ [](pc = "done" => events # <<>> /\ events[Len(events)].phase = "done")
    /\ (ix.phase \in {"parsing", "embedding", "indexing"})
          ~> (ix.phase \in {"returned", "raised"})

\* run() returned after the loops over two repositories and their files,
\* and processRepository returned after three embedding batches and two
\* bulk batches
C20_Witness ==
    /\ pc = "done"
    /\ Len(attempted) = 2
    /\ result.files >= 3
    /\ result.indexed + result.failed >= 3
    /\ ix.phase = "returned"
    /\ ix.total > BulkBatchSize
    /\ Len(ReportedChunksIndexed) = 5

-----------------------------------------------------------------------------
(* The indexing of one repository: partial results, batches, bulk failures *)

\* processRepository raised after the store acknowledged documents of it
RaisedAfterAcknowledged == ix.phase = "raised" /\ ix.acknowledged # {}

\* C21: when the processing of a repository raises during embedding or
\* indexing after the store acknowledged bulk batches of it, the repository
\* is recorded in errors and the documents acknowledged are counted in the
\* result's indexed, which counts every document the store acknowledged.
C21_FailedRepoKeepsPartialResults ==
    /\ ix.phase = "raised" =>
          \E k \in 1..Len(ix.result.errors) :
             \E message \in {<<"delete failed">>, <<"embed failed">>, <<"bulk failed">>} :
                ix.result.errors[k] = FailedToProcess(SplitRepo.name, message)
    /\ ix.phase \in {"returned", "raised"} =>
          ix.result.indexed = Cardinality(ix.acknowledged)

\* the texts of the k-th batch of EmbedBatchSize
EmbedBatchTexts(k) ==
    SubSeq(IndexTexts(ix.total), EmbedBatchSize * (k - 1) + 1,
           Min(EmbedBatchSize * k, ix.total))

\* the completed counts of the embedding reports, in the order reported
ReportedEmbedded ==
    LET with == SelectSeq(ix.progress,
                          LAMBDA e : e.phase = "embedding" /\ e.chunksIndexed.defined)
    IN [k \in 1..Len(with) |-> with[k].chunksIndexed.num]

\* every text was embedded
EmbeddingComplete == Len(ix.embeddings) = ix.total /\ ix.total > 0

\* C28: the chunk list is cut into consecutive batches of 50 in list order,
\* embedBatch is called once per batch with the batch's texts in order, every
\* chunk is in exactly one batch, the embedding attached to chunk i is the
\* vector the provider returned for the text of chunk i, and after batch k
\* the progress reported is completed = min(k * 50, total).
C28_EmbeddingBatches ==
    /\ \A k \in 1..Len(ix.embedCalls) : ix.embedCalls[k] = EmbedBatchTexts(k)
    /\ Len(ix.embedCalls) <= CeilDiv(ix.total, EmbedBatchSize)
    /\ \A k \in 1..Len(ReportedEmbedded) :
          ReportedEmbedded[k] = Min(k * EmbedBatchSize, ix.total)
    /\ Len(ReportedEmbedded) \in {Len(ix.embedCalls), Len(ix.embedCalls) - 1}
    /\ ix.phase \in {"indexing", "returned"} =>
          /\ ix.total > 0 => EmbeddingComplete
          /\ Len(ix.embedCalls) = CeilDiv(ix.total, EmbedBatchSize)
          /\ Len(ReportedEmbedded) = Len(ix.embedCalls)
          /\ \A i \in 1..ix.total :
                Cardinality({k \in 1..Len(ix.embedCalls) :
                    \E j \in 1..Len(ix.embedCalls[k]) :
                        ix.embedCalls[k][j] = IndexChunk(i).text}) = 1
    /\ ix.phase = "indexing" =>
          \A i \in 1..ix.total :
             IndexChunksWithEmbeddings[i].embedding =
                ProviderVectors(<<IndexChunk(i).text>>)[1]

\* the bulk loop runs on MaxChunks chunks embedded in three batches, the
\* last one shorter than EmbedBatchSize
C28_Witness ==
    /\ ix.phase = "indexing"
    /\ ix.total = MaxChunks
    /\ Len(ix.embedCalls) = 3
    /\ Len(ix.embedCalls[3]) < EmbedBatchSize
    /\ ReportedEmbedded = <<EmbedBatchSize, 2 * EmbedBatchSize, MaxChunks>>

\* the documents the bulk responses reported as failed, over all batches
FailedDocuments == UNION {ix.bulkCalls[k].failing : k \in 1..Len(ix.bulkCalls)}

\* "<id>: <type> - <reason>" for the failed documents from position k on
RECURSIVE ErrorsOfFailedFrom(_)
ErrorsOfFailedFrom(k) ==
    IF k > ix.total THEN <<>>
    ELSE (IF k \in FailedDocuments
          THEN <<IndexChunk(k).id \o <<": ", "mapper_parsing_exception", " - ", "reason">>>>
          ELSE <<>>)
         \o ErrorsOfFailedFrom(k + 1)

\* C29: when bulk responses report failed documents, indexChunks still
\* submits every remaining batch and returns failed = the number of failed
\* documents over all batches, one error string "<id>: <reason>" per failed
\* document, and successful + failed = the number of chunks submitted.
C29_PartialBulkFailure ==
    /\ \A k \in 1..Len(ix.bulkCalls) :
          /\ ix.bulkCalls[k].first = BulkBatchSize * (k - 1) + 1
          /\ ix.bulkCalls[k].last = Min(BulkBatchSize * k, ix.total)
    /\ (ix.phase = "indexing" /\ ix.i > 0) =>
          /\ ix.totalFailed = Cardinality(FailedDocuments)
          /\ ix.totalSuccessful + ix.totalFailed = ix.i
    /\ (ix.phase = "returned" /\ ix.total > 0) =>
          /\ Len(ix.bulkCalls) = CeilDiv(ix.total, BulkBatchSize)
          /\ ix.totalFailed = Cardinality(FailedDocuments)
          /\ ix.allErrors = ErrorsOfFailedFrom(1)
          /\ ix.totalSuccessful + ix.totalFailed = ix.total
          /\ ix.totalSuccessful = Cardinality(ix.acknowledged)
          /\ ix.result.failed = ix.totalFailed
          /\ ix.result.errors = ix.allErrors

\* indexChunks returned after a first batch whose response reported a failed
\* document and a second batch with acknowledged documents
C29_Witness ==
    /\ ix.phase = "returned"
    /\ Len(ix.bulkCalls) = 2
    /\ ix.bulkCalls[1].failing # {}
    /\ \E d \in ix.acknowledged : d > BulkBatchSize
    /\ ix.totalFailed >= 1

-----------------------------------------------------------------------------
(* The chunks symbolToChunks returns for one symbol *)

\* the symbol fits: estimatedTokens <= maxTokens
Fits == chunked /\ CeilDiv(Len(symbol.text), 4) <= config.maxTokens

\* the doc comment and a line break, when the symbol has a doc comment
DocCommentLine ==
    IF Truthy(symbol.docComment) THEN symbol.docComment.str \o <<"\n">> ELSE <<>>

\* C22: a symbol that fits, with or without a doc comment, gives exactly one
\* chunk whose text is the doc comment (if present) followed by the symbol
\* body, whose symbol_name, start_line and end_line are the symbol's, and
\* whose text is not longer than maxTokens*4 characters.
C22_SingleChunkSize ==
    Fits =>
        /\ Len(chunks) = 1
        /\ chunks[1].text = DocCommentLine \o symbol.text
        /\ chunks[1].symbol_name = symbol.name
        /\ chunks[1].start_line = symbol.startLine
        /\ chunks[1].end_line = symbol.endLine
        /\ Len(chunks[1].text) <= config.maxTokens * 4

\* C23: when a named symbol is split into two or more parts, the first part
\* keeps the plain name and part N >= 2 is named "<name> (part N)"; a single
\* part keeps the plain name.
C23_PartNaming ==
    (Oversized /\ Truthy(symbol.name)) =>
        /\ Len(chunks) >= 1 => chunks[1].symbol_name = symbol.name
        /\ \A n \in 2..Len(chunks) :
              chunks[n].symbol_name = Str(PartName(symbol.name.str, n))

\* the symbol's text has exactly endLine - startLine + 1 lines
ExactLines == symbol.endLine - symbol.startLine + 1 = Len(Split(symbol.text, "\n"))

\* lines first..last of the file, of a symbol that starts at symbol.startLine
SymbolLines(first, last) ==
    SubSeq(Split(symbol.text, "\n"), first - symbol.startLine + 1,
           last - symbol.startLine + 1)

\* C24: for a split symbol whose text has exactly endLine - startLine + 1
\* lines, the text of every part without the context header is the symbol's
\* lines start_line..end_line; the first part starts at symbol.startLine, the
\* last ends at symbol.endLine, start_line does not decrease and consecutive
\* parts leave no gap, so every line is in some part.
C24_AccurateLineRanges ==
    (Oversized /\ ExactLines) =>
        /\ Len(chunks) >= 1
        /\ chunks[1].start_line = symbol.startLine
        /\ chunks[Len(chunks)].end_line = symbol.endLine
        /\ \A i \in 1..Len(chunks) :
              /\ symbol.startLine <= chunks[i].start_line
              /\ chunks[i].end_line <= symbol.endLine
              /\ chunks[i].text =
                    ContextHeader(symbol)
                    \o Join(SymbolLines(chunks[i].start_line, chunks[i].end_line), "\n")
        /\ \A i \in 1..(Len(chunks) - 1) :
              /\ chunks[i].start_line <= chunks[i + 1].start_line
              /\ chunks[i + 1].start_line <= chunks[i].end_line + 1
        /\ \A line \in symbol.startLine..symbol.endLine :
              \E i \in 1..Len(chunks) :
                 chunks[i].start_line <= line /\ line <= chunks[i].end_line

\* a method with a parent split into three parts or more
C24_Witness ==
    /\ Oversized /\ ExactLines
    /\ symbol.type = "method"
    /\ symbol.startLine > 1
    /\ Len(chunks) >= 3

\* C25: every chunk the builder emits, single or part of a split, the final
\* part included, has end_line >= start_line, for every symbol with
\* endLine >= startLine.
C25_LineRange ==
    (chunked /\ symbol.endLine >= symbol.startLine) =>
        \A i \in 1..Len(chunks) : chunks[i].end_line >= chunks[i].start_line

\* a trimmed symbol split into parts, the first a single line
C25_Witness ==
    /\ Oversized
    /\ ~ExactLines
    /\ Len(chunks) >= 2
    /\ chunks[1].end_line = chunks[1].start_line
    /\ chunks[Len(chunks)].end_line > chunks[Len(chunks)].start_line

\* `// In class: ${parent}\n`
ParentHeader == ContextHeaderPrefix \o symbol.parent.str \o <<"\n">>

BlankFiles ==
    { [relativePath |-> <<"s", "/", "m">>, language |-> l, readable |-> TRUE,
       content |-> c, parse |-> p]
      : l \in FileLanguages, c \in {<<>>, <<" ">>, <<"\n">>, <<" ", "\n", "\t">>},
        p \in {ParseRaises, [raises |-> FALSE, symbols |-> <<>>]} }

C30_IdInputInjective ==
    Len(idCalls) > 0 =>
        \A other \in IdArgTuples :
            other # idCalls[Len(idCalls)].args =>
                IdCall(other).id # idCalls[Len(idCalls)].id

====
